---- MODULE Spec2Model ----
(***************************************************************************)
(* Job lifecycle of the build-and-deploy backend: the ingress routes       *)
(* (routes/compile.js, routes/deploy.js), the BullMQ queue and its retry   *)
(* policy (queues/bullmq.js), the two worker handlers                      *)
(* (workers/compileWorker.js, workers/deployWorker.js), the Job store      *)
(* (models/Job.js), the Redis pub/sub bus and the Socket.IO rooms          *)
(* (services/socketService.js, server.js) and the usage limits of a user   *)
(* (models/User.js).                                                       *)
(***************************************************************************)
EXTENDS Integers, Sequences, FiniteSets, TLC

\* ------------------------------------------------------------------ bounds
\* Number of POST requests (each allocates a fresh job id) in the lifecycle
\* specifications Spec and SpecSock.
MaxJobs == 1
\* Number of POST requests in the concurrency specification SpecConc.
MaxPayloads == 2
\* Number of client sockets in SpecSock.
MaxSockets == 2
\* Number of log records one run of a runner emits at most.
MaxLogs == 1

\* Clock ticks in a day (the clock has millisecond resolution).
TicksPerDay == 2
MaxLines == 2
MaxSessions == 2
MaxOut == 2
MaxPolls == 2
MaxFired == 3
MaxDeployers == 2
IdLen == 56
\* Days the clock runs.
MaxDays == 31
\* Cap of the usage counters.
MaxCount == 5
\* Longest WASM byte string sent for deployment.
MaxWasmLen == 12
\* Projects the jobs are about.
MaxProjects == 2

\* --------------------------------------------------------- program constants
\* defaultJobOptions.attempts
MaxAttempts == 3
\* parseInt(process.env.*_WORKER_CONCURRENCY || '2', 10)
DefaultConcurrency == 2

\* daysSinceReset >= 30
ResetDays == 30
\* -1 means unlimited
Unlimited == -1
MinWholeLine == 50
TailLimit == 1000

Jobs == 1..(IF MaxJobs > MaxPayloads THEN MaxJobs ELSE MaxPayloads)
Sockets == 1..MaxSockets
Types == {"compile", "deploy"}
Null == "null"

VARIABLES
  env,        \* env[t]: the *_WORKER_CONCURRENCY variable of worker t ("unset" or digits)
  ing,        \* ing[j]: position of the ingress handler of request j
  jtype,      \* jtype[j]: queue the request went to ("none" before the POST)
  resp,       \* resp[j]: HTTP status answered (0: not yet)
  store,      \* store[j]: the Job document of id j
  bull,       \* bull[j]: state of the BullMQ job of id j
  attempts,   \* attempts[j]: attemptsMade of the BullMQ job
  calls,      \* calls[j]: handler invocations so far
  pc,         \* pc[j]: position of the worker handler working on j
  emitted,    \* emitted[j]: log records the running runner has emitted
  outcome,    \* outcome[j]: how the runner ended
  pending,    \* pending[j]: incremental log writes issued and not yet applied
  bus,        \* bus[j]: messages published for j, not yet received by the server
  hubUp,      \* the API server's redisSubscriber has psubscribed to job:log:*, job:status:*
  maxReq,     \* number of POST requests the clients send
  rooms,      \* rooms[j]: sockets in the Socket.IO room job:{j}
  recv,       \* recv[s]: events the server has emitted to socket s
  user,       \* the User document: subscription.plan and usage.*
  now,        \* the clock (new Date()), in ticks since the user was created
  ret,        \* the last call on the user document and what it returned
  history,    \* history[j]: 'success' entries job j pushed to Project.deploymentHistory
  incs,       \* incs[j]: incrementDeployment() calls made for job j
  stalled,    \* stalled[j]: the BullMQ job was moved back to wait as stalled
  warned,     \* warned[j]: a side effect of job j was rejected and logged with console.warn
  ipc,        \* position of the contract invoke route's handler
  ires,       \* how the last contract invoke request ended
  wasm,       \* the Buffer deployContract decoded from wasmBase64 (a byte sequence)
  dstep,      \* position of deployContract
  spawned,    \* deployContract has spawned `stellar contract deploy`
  dres,       \* the value deployContract returned
  keyed,      \* deployContract has called ensureDefaultKeypair
  funded,     \* deployContract has run `stellar keys fund`
  cliOut,     \* deployOutput: what `stellar contract deploy` printed, as characters
  extracted,  \* what extractContractId returned for deployOutput
  rstep,      \* rstep[j]: position of job j's runner with respect to its directory
  rdir,       \* rdir[j]: the projectDir job j's runner computed
  disk,       \* disk[d]: the jobs whose files are under directory d
  onDisk,     \* the directories that exist on disk
  rexit,      \* rexit[j]: how job j's runner left: returned success, returned failure, raised
  got,        \* the last answer of GET /api/jobs/:id
  logCap,     \* log records a runner emits at most in one run
  fxUp,       \* the Project, User and UsageLog updates of the side effects succeed
  files,      \* the files of the project compileProject wrote to projectDir
  docker,     \* the Docker daemon answers and the compiler image is or can be built
  cli,        \* `stellar contract build` can be spawned
  bout,       \* the lines `stellar contract build` prints
  cstep,      \* position of compileProject among its backends
  tried,      \* the backends compileProject has run, in order
  nexit,      \* how the build process of the native backend closed
  nwasm,      \* the native build left a .wasm artifact in its output directory
  cres,       \* the value compileProject returned
  cjob,       \* the jobResult the compile worker stored for it
  sess,       \* sess[r]: position of invoke request r and the user document it loaded
  invoked,    \* contract invocations of admitted invoke requests that resolved
  cout,       \* lines the compile container has printed
  polls,      \* the line counts container.logs() answered to the pollLogs calls in flight
  nfired,     \* pollLogs calls the interval timer has made
  processed,  \* processedLogCount
  plog,       \* the container lines pollLogs has logged, as runs of line numbers
  pstep,      \* the container backend: running, final poll in flight, finished
  kp,         \* the identity deploy_keypair exists in the CLI's global store
  kd          \* each concurrent deploy's position in ensuring the identity

quotaVars == <<user, now, ret>>
fxVars == <<history, incs, stalled, warned, ipc, ires>>
runVars == <<wasm, dstep, spawned, dres, keyed, funded, cliOut, extracted>>
fsVars == <<rstep, rdir, disk, onDisk, rexit>>
capVars == <<logCap, fxUp>>
compVars == <<files, docker, cli, bout, cstep, tried, nexit, nwasm, cres, cjob>>
svcVars == <<sess, invoked>>
pollVars == <<cout, polls, nfired, processed, plog, pstep>>
keyVars == <<kp, kd>>
auxVars == <<fxVars, runVars, fsVars, got, capVars, compVars, svcVars, pollVars, keyVars>>

vars == <<env, ing, jtype, resp, store, bull, attempts, calls, pc, emitted,
          outcome, pending, bus, hubUp, maxReq, rooms, recv, quotaVars, auxVars>>

\* ------------------------------------------------------------- Job store
\* compileProject has not returned.
NoCompile == [success |-> FALSE, backend |-> "none", error |-> "none",
              compilationType |-> "undefined", fallback |-> FALSE]
NoJobResult == [success |-> FALSE, compilationType |-> "undefined", error |-> "none"]

\* extractContractId has not been called.
NotExtracted == [ran |-> FALSE, found |-> FALSE, id |-> <<>>]

\* A host with an empty project directory, no Docker and no Stellar CLI.
NoToolchain == files = {} /\ docker = FALSE /\ cli = FALSE /\ bout = <<>>

\* models/Job.js: result defaults to null, error defaults to null.
NullResult == [null |-> TRUE, success |-> FALSE, logs |-> <<>>, error |-> Null]
NoJob == [exists |-> FALSE, status |-> "none", result |-> NullResult, error |-> Null]

StartedLog == [kind |-> "started", n |-> 0]
CaughtLog == [kind |-> "caught", n |-> 0]
RunnerLog(k) == [kind |-> "runner", n |-> k]
\* The runner's log vector after k emits.
RunnerLogs(k) == [i \in 1..k |-> RunnerLog(i)]

\* A terminal update that leaves the error field out.
FindByIdAndUpdateNoError(doc, upd) ==
  IF ~doc.exists THEN doc
  ELSE [doc EXCEPT !.status = upd.status, !.result = upd.result]

\* Job.findByIdAndUpdate(id, {status, result, error}): no upsert, so a missing
\* document stays missing; the fields given replace the stored ones.
FindByIdAndUpdate(doc, upd) ==
  IF ~doc.exists THEN doc
  ELSE [doc EXCEPT !.status = upd.status, !.result = upd.result, !.error = upd.error]

\* Job.findByIdAndUpdate(id, {'result.logs': logs}, {upsert: false}):
\* a $set of a subfield of a null result is rejected by the store (the
\* callback catches it); otherwise only result.logs is replaced.
UpdateResultLogs(doc, logs) ==
  IF ~doc.exists \/ doc.result.null THEN doc
  ELSE [doc EXCEPT !.result.logs = logs]

\* ------------------------------------------------------------------ queue
\* parseInt(process.env.X || '2', 10)
ParseConcurrency(v) ==
  CASE v = "unset" -> DefaultConcurrency
    [] v = "1" -> 1
    [] v = "2" -> 2
    [] v = "3" -> 3
    [] OTHER -> 0

\* A createWorker that drops the option and passes the default on.
createWorkerDefault(c) == DefaultConcurrency

\* createWorker: const concurrency = options.concurrency || 1; then
\* {concurrency, ...options} so a truthy option is what the Worker gets.
createWorker(c) == IF c = 0 THEN 1 ELSE c

Concurrency(t) == createWorker(ParseConcurrency(env[t]))

InFlight(t) == {j \in Jobs : jtype[j] = t /\ pc[j] # "idle"}

\* ------------------------------------------------------------------ users
\* userSchema defaults: plan 'free', deployments {count 0, limit 5},
\* functionTests {count 0, limit 2}, lastResetDate Date.now.
NewUser == [plan |-> "free", dCount |-> 0, dLimit |-> 5, dReset |-> 0,
            fCount |-> 0, fLimit |-> 2, fReset |-> 0]
Plans == {"free", "plan2", "plan3"}

\* The concurrent requests to the invoke route; none has loaded the user.
Sessions == 1..MaxSessions
Deployers == 1..MaxDeployers
NoDeploy == [pc |-> "idle", net |-> "testnet", out |-> "none"]
NoSession == [pc |-> "idle", orig |-> NewUser, doc |-> NewUser]
NoRet == [op |-> "none", allowed |-> FALSE, current |-> 0, limit |-> 0]

\* userSchema.methods.updateUsageLimits(plan)
updateUsageLimits(u, plan) ==
  CASE plan = "free" -> [u EXCEPT !.dLimit = 5, !.fLimit = 2]
    [] plan = "plan2" -> [u EXCEPT !.dLimit = Unlimited, !.fLimit = 5]
    [] plan = "plan3" -> [u EXCEPT !.dLimit = Unlimited, !.fLimit = Unlimited]
    [] OTHER -> u

\* userSchema.methods.updateSubscription(plan): the plan, then the limits.
updateSubscription(u, plan) == updateUsageLimits([u EXCEPT !.plan = plan], plan)

\* Math.floor((now - resetDate) / (1000 * 60 * 60 * 24))
DaysSinceReset(t, resetDate) == (t - resetDate) \div TicksPerDay

\* "Reset monthly usage": both counters and both dates.
ResetUsage(u, t) == [u EXCEPT !.dCount = 0, !.dReset = t, !.fCount = 0, !.fReset = t]

\* userSchema.methods.canDeploy: the document after the call.
canDeployUser(u, t) ==
  IF u.dLimit = Unlimited THEN u
  ELSE IF DaysSinceReset(t, u.dReset) >= ResetDays THEN ResetUsage(u, t) ELSE u

\* canDeploy with `>` for `>=`.
canDeployRetGt(u, t) ==
  IF u.dLimit = Unlimited
    THEN [op |-> "canDeploy", allowed |-> TRUE, current |-> 0, limit |-> 0]
    ELSE LET v == canDeployUser(u, t) IN
      [op |-> "canDeploy", allowed |-> ~(v.dCount > v.dLimit),
       current |-> v.dCount, limit |-> v.dLimit]

\* userSchema.methods.canDeploy: what it returns ({allowed: true} alone for
\* an unlimited plan).
canDeployRet(u, t) ==
  IF u.dLimit = Unlimited
    THEN [op |-> "canDeploy", allowed |-> TRUE, current |-> 0, limit |-> 0]
    ELSE LET v == canDeployUser(u, t) IN
      [op |-> "canDeploy", allowed |-> ~(v.dCount >= v.dLimit),
       current |-> v.dCount, limit |-> v.dLimit]

\* userSchema.methods.canTestFunction: the document after the call.
canTestFunctionUser(u, t) ==
  IF u.fLimit = Unlimited THEN u
  ELSE IF DaysSinceReset(t, u.fReset) >= ResetDays THEN ResetUsage(u, t) ELSE u

\* userSchema.methods.canTestFunction: what it returns.
canTestFunctionRet(u, t) ==
  IF u.fLimit = Unlimited
    THEN [op |-> "canTestFunction", allowed |-> TRUE, current |-> 0, limit |-> 0]
    ELSE LET v == canTestFunctionUser(u, t) IN
      [op |-> "canTestFunction", allowed |-> ~(v.fCount >= v.fLimit),
       current |-> v.fCount, limit |-> v.fLimit]

\* userSchema.methods.incrementDeployment / incrementFunctionTest
incrementDeployment(u) == [u EXCEPT !.dCount = @ + 1]
incrementFunctionTest(u) == [u EXCEPT !.fCount = @ + 1]

\* ------------------------------------------------------- deploy runner
\* No value returned yet.
NoResult == [success |-> FALSE, error |-> Null]

\* '0061736d' and '01000000'
WasmMagic == <<0, 97, 115, 109>>
WasmVersion == <<1, 0, 0, 0>>

Min(a, b) == IF a < b THEN a ELSE b

\* wasmBuffer.slice(a, b): bytes a .. b-1, counted from 0.
Slice(buf, a, b) == SubSeq(buf, a + 1, Min(b, Len(buf)))

\* The loop over bytes 8 .. min(length, 100) - 1 looking for a section id.
HasSection(buf) == \E i \in 8..(Min(Len(buf), 100) - 1) : buf[i + 1] >= 0 /\ buf[i + 1] <= 11

\* A validation that does not look at the magic bytes.
validateWasmFileNoMagic(buf) ==
  IF Len(buf) < 8 THEN [valid |-> FALSE, errors |-> {"too small"}]
  ELSE LET errors == (IF Slice(buf, 4, 8) # WasmVersion THEN {"version"} ELSE {})
                     \cup (IF Len(buf) >= 12 /\ ~HasSection(buf) THEN {"sections"} ELSE {})
       IN [valid |-> errors = {}, errors |-> errors]

\* validateWasmFile(wasmBuffer)
validateWasmFile(buf) ==
  IF Len(buf) < 8 THEN [valid |-> FALSE, errors |-> {"too small"}]
  ELSE LET errors == (IF Slice(buf, 0, 4) # WasmMagic THEN {"magic"} ELSE {})
                     \cup (IF Slice(buf, 4, 8) # WasmVersion THEN {"version"} ELSE {})
                     \cup (IF Len(buf) >= 12 /\ ~HasSection(buf) THEN {"sections"} ELSE {})
       IN [valid |-> errors = {}, errors |-> errors]

\* The byte strings sent for deployment: a header, a version and a body that
\* fills MaxWasmLen bytes, cut at any length.
Magics == {WasmMagic, <<0, 97, 115, 110>>, <<1, 97, 115, 109>>, <<97, 0, 115, 109>>}
Versions == {WasmVersion, <<2, 0, 0, 0>>}
Fills == {1, 255}
Lasts == {0, 255}
Body(f, l, len) == [i \in 1..len |-> IF i = len THEN l ELSE f]
WasmInputs ==
  {SubSeq(m \o v \o Body(f, l, MaxWasmLen - 8), 1, n) :
     m \in Magics, v \in Versions, f \in Fills, l \in Lasts, n \in 0..MaxWasmLen}

\* --------------------------------------------------- working directories
Projects == 1..MaxProjects

\* path.join(this.tempDir, projectId): tempDir is os.tmpdir()/soroban-compile
\* in the compile runner and os.tmpdir()/soroban-deploy in the deploy runner.
ProjectDir(t, p) == <<t, p>>

Dirs == {ProjectDir(t, p) : t \in Types, p \in Projects}
NoDir == <<>>

\* ------------------------------------------------------------ GET a job
\* Who sends the GET: the user who posted the job, another user, or a client
\* with no token.
Requesters == {"owner", "other", "anon"}
NoAnswer == [who |-> "none", id |-> 0, code |-> 0, status |-> "none"]

\* ----------------------------------------------------------------- Init
EnvValues == {"unset", "1"}

InitJobs(envs, n, hub) ==
  /\ env \in [Types -> envs]
  /\ maxReq = n
  /\ hubUp = hub
  /\ ing = [j \in Jobs |-> "idle"]
  /\ jtype = [j \in Jobs |-> "none"]
  /\ resp = [j \in Jobs |-> 0]
  /\ store = [j \in Jobs |-> NoJob]
  /\ bull = [j \in Jobs |-> "none"]
  /\ attempts = [j \in Jobs |-> 0]
  /\ calls = [j \in Jobs |-> 0]
  /\ pc = [j \in Jobs |-> "idle"]
  /\ emitted = [j \in Jobs |-> 0]
  /\ outcome = [j \in Jobs |-> "none"]
  /\ pending = [j \in Jobs |-> {}]
  /\ bus = [j \in Jobs |-> <<>>]
  /\ rooms = [j \in Jobs |-> {}]
  /\ recv = [s \in Sockets |-> <<>>]
  /\ now = 0
  /\ ret = NoRet
  /\ history = [j \in Jobs |-> 0]
  /\ sess = [r \in Sessions |-> NoSession]
  /\ invoked = 0
  /\ cout = 0
  /\ polls = <<>>
  /\ nfired = 0
  /\ processed = 0
  /\ plog = <<>>
  /\ pstep = "running"
  /\ kp = FALSE
  /\ kd = [d \in Deployers |-> NoDeploy]
  /\ cstep = "files"
  /\ tried = <<>>
  /\ cjob = NoJobResult
  /\ nexit = "none"
  /\ nwasm = FALSE
  /\ cres = NoCompile
  /\ keyed = FALSE
  /\ extracted = NotExtracted
  /\ funded = FALSE
  /\ warned = [j \in Jobs |-> FALSE]
  /\ incs = [j \in Jobs |-> 0]
  /\ stalled = [j \in Jobs |-> FALSE]
  /\ ipc = "idle"
  /\ ires = "none"
  /\ dstep = "start"
  /\ spawned = FALSE
  /\ dres = NoResult
  /\ rstep = [j \in Jobs |-> "idle"]
  /\ rdir = [j \in Jobs |-> NoDir]
  /\ disk = [d \in Dirs |-> {}]
  /\ onDisk = {}
  /\ rexit = [j \in Jobs |-> "none"]
  /\ got = NoAnswer

\* A user document as the schema creates it; no deploy input.
InitWith(envs, n, hub) ==
  /\ InitJobs(envs, n, hub)
  /\ logCap = MaxLogs
  /\ fxUp = TRUE
  /\ NoToolchain
  /\ user = NewUser
  /\ wasm = <<>>
  /\ cliOut = <<>>

\* Workers started with the default concurrency, no API server subscribed.
Init == InitWith({"unset"}, MaxJobs, FALSE)
\* Workers started with *_WORKER_CONCURRENCY unset or "1".
InitConc == InitWith(EnvValues, MaxPayloads, FALSE)
\* The API server is up and subscribed to the bus; clients hold sockets.
InitSock == InitWith({"unset"}, MaxJobs, TRUE)

\* ---------------------------------------------------------------- ingress
\* router.post('/'): addCompileJob / addDeployJob has resolved; the payload
\* is in the queue, the Job document is not saved yet.
PostEnqueue(j, t) ==
  /\ ing[j] = "idle"
  /\ j <= maxReq
  /\ \A i \in Jobs : i < j => ing[i] # "idle"
  /\ ing' = [ing EXCEPT ![j] = "enqueued"]
  /\ jtype' = [jtype EXCEPT ![j] = t]
  /\ bull' = [bull EXCEPT ![j] = "waiting"]
  /\ UNCHANGED <<quotaVars, auxVars, env, resp, store, attempts, calls, pc, emitted, outcome, pending, bus, hubUp, maxReq, rooms, recv>>

\* new Job({...}).save(): models/Job.js requires userId. routes/compile.js
\* gives it; routes/deploy.js does not, so its save is rejected by validation
\* and the catch answers 500.
SaveValidates(t) == t = "compile"

PostSave(j) ==
  /\ ing[j] = "enqueued"
  /\ ing' = [ing EXCEPT ![j] = "done"]
  /\ IF SaveValidates(jtype[j])
       THEN /\ store' = [store EXCEPT ![j] =
                  [exists |-> TRUE, status |-> "queued", result |-> NullResult, error |-> Null]]
            /\ resp' = [resp EXCEPT ![j] = 202]
       ELSE /\ store' = store
            /\ resp' = [resp EXCEPT ![j] = 500]
  /\ UNCHANGED <<quotaVars, auxVars, env, jtype, bull, attempts, calls, pc, emitted, outcome, pending, bus, hubUp, maxReq, rooms, recv>>

\* ----------------------------------------------------------------- broker
\* The Worker takes a waiting job when fewer than `concurrency` handlers of
\* this worker are running, and calls the processor with it.
Dispatch(j) ==
  /\ bull[j] = "waiting"
  /\ pc[j] = "idle"
  /\ Cardinality(InFlight(jtype[j])) < Concurrency(jtype[j])
  /\ bull' = [bull EXCEPT ![j] = "active"]
  /\ pc' = [pc EXCEPT ![j] = "start"]
  /\ calls' = [calls EXCEPT ![j] = @ + 1]
  /\ UNCHANGED <<quotaVars, auxVars, env, ing, jtype, resp, store, attempts, emitted, outcome, pending, bus, hubUp, maxReq, rooms, recv>>

\* ---------------------------------------------------------------- workers
\* processCompileJob / processDeployJob, first await: status 'active' and a
\* result holding the "... started..." log, whatever the stored status is.
ActiveUpdate == [status |-> "active",
                 result |-> [null |-> FALSE, success |-> FALSE,
                             logs |-> <<StartedLog>>, error |-> Null]]

MarkActive(j) ==
  /\ pc[j] = "start"
  /\ store' = [store EXCEPT ![j] =
       IF @.exists THEN [@ EXCEPT !.status = ActiveUpdate.status,
                                  !.result = ActiveUpdate.result]
       ELSE @]
  /\ pc' = [pc EXCEPT ![j] = "run"]
  /\ emitted' = [emitted EXCEPT ![j] = 0]
  /\ outcome' = [outcome EXCEPT ![j] = "none"]
  /\ UNCHANGED <<quotaVars, auxVars, env, ing, jtype, resp, bull, attempts, calls, pending, bus, hubUp, maxReq, rooms, recv>>

\* redisPublisher.publish(channel, message): Redis pub/sub keeps nothing for a
\* pattern nobody is subscribed to.
PublishFront(q, msg) == IF hubUp THEN <<msg>> \o q ELSE q

Publish(q, msg) == IF hubUp THEN Append(q, msg) ELSE q

LogMsg(k) == [ch |-> "log", log |-> RunnerLog(k), status |-> "none"]
StatusMsg(st) == [ch |-> "status", log |-> StartedLog, status |-> st]

\* The runner's log(type, message): push to its log vector, emitLog (the
\* worker process has no io, so only the Redis publish happens), and the
\* onLogUpdate callback started without being awaited.
EmitLog(j) ==
  /\ pc[j] = "run"
  /\ emitted[j] < logCap
  /\ emitted' = [emitted EXCEPT ![j] = @ + 1]
  /\ bus' = [bus EXCEPT ![j] = Publish(@, LogMsg(emitted[j] + 1))]
  /\ pending' = [pending EXCEPT ![j] = @ \cup {emitted[j] + 1}]
  /\ UNCHANGED <<quotaVars, auxVars, env, ing, jtype, resp, store, bull, attempts, calls, pc, outcome, hubUp, maxReq, rooms, recv>>

\* updateJobLogs(logs): the store applies one of the incremental writes; it
\* may do so after the handler has gone on, or has ended.
ApplyLogUpdate(j, k) ==
  /\ k \in pending[j]
  /\ pending' = [pending EXCEPT ![j] = @ \ {k}]
  /\ store' = [store EXCEPT ![j] = UpdateResultLogs(@, RunnerLogs(k))]
  /\ UNCHANGED <<quotaVars, auxVars, env, ing, jtype, resp, bull, attempts, calls, pc, emitted, outcome, bus, hubUp, maxReq, rooms, recv>>

\* compileProject returns {success: true|false, ...} or raises (its outer
\* catch uses `logs`, which is declared inside the try block);
\* deployContract catches every error and returns {success: false, error}.
RunnerOutcomes(t) == IF t = "compile" THEN {"ok", "err", "raise"} ELSE {"ok", "err"}

RunnerEnds(j, o) ==
  /\ pc[j] = "run"
  /\ o \in RunnerOutcomes(jtype[j])
  /\ outcome' = [outcome EXCEPT ![j] = o]
  /\ pc' = [pc EXCEPT ![j] = IF o = "raise" THEN "caught" ELSE "final"]
  /\ UNCHANGED <<quotaVars, auxVars, env, ing, jtype, resp, store, bull, attempts, calls, emitted, pending, bus, hubUp, maxReq, rooms, recv>>

\* The value the runner returned.
RunnerResult(j) ==
  [success |-> outcome[j] = "ok",
   logs |-> RunnerLogs(emitted[j]),
   error |-> IF outcome[j] = "ok" THEN Null ELSE "runner error"]

DefaultError(t) == IF t = "compile" THEN "Compilation failed" ELSE "Deployment failed"

\* A status that does not look at result.success.
TerminalStatusCompleted(res) == "completed"

\* status: result.success ? 'completed' : 'failed'
TerminalStatus(res) == IF res.success THEN "completed" ELSE "failed"

\* error: result.success ? null : (result.error || '<Type> failed')
TerminalError(t, res) ==
  IF res.success THEN Null
  ELSE IF res.error = Null THEN DefaultError(t) ELSE res.error

\* jobResult
JobResult(res) ==
  [null |-> FALSE, success |-> res.success, logs |-> res.logs, error |-> res.error]

\* "Update job with result" and "Emit final status via WebSocket": the
\* awaited terminal write, then emitJobStatus with no await in between.
TerminalWrite(j) ==
  /\ pc[j] = "final"
  /\ LET res == RunnerResult(j) IN
       /\ store' = [store EXCEPT ![j] = FindByIdAndUpdate(@,
            [status |-> TerminalStatus(res), result |-> JobResult(res),
             error |-> TerminalError(jtype[j], res)])]
       /\ bus' = [bus EXCEPT ![j] = Publish(@, StatusMsg(TerminalStatus(res)))]
  /\ pc' = [pc EXCEPT ![j] = "post"]
  /\ UNCHANGED <<quotaVars, auxVars, env, ing, jtype, resp, bull, attempts, calls, emitted, outcome, pending, hubUp, maxReq, rooms, recv>>

\* The payload the queue adapter hands to BullMQ: addCompileJob copies
\* userId into it, addDeployJob does not.
PayloadHasUserId(t) == t = "compile"

\* if (result.success && result.contractAddress): deployContract returns
\* success only with the contract id it extracted.
DeploySucceeded(j) == jtype[j] = "deploy" /\ outcome[j] = "ok"

\* if (userId) { user.incrementDeployment() ... }: userId comes from job.data.
IncrementsUser(j) == DeploySucceeded(j) /\ PayloadHasUserId(jtype[j])

\* if (result.success) { try { await Project.findByIdAndUpdate(...) } ... }:
\* both workers update the project of a job that succeeded.
UpdatesProject(j) == outcome[j] = "ok"

\* A side effect of job j is attempted and rejected.
FxFails(j) == UpdatesProject(j) /\ ~fxUp

\* The side effects after the terminal write: the $push of a 'success' entry
\* to the project's deploymentHistory and the user's deployment counter.
\* Each is wrapped in its own try/catch, whose catch only calls console.warn.
SideEffects(j) ==
  /\ history' = [history EXCEPT ![j] = IF DeploySucceeded(j) /\ fxUp THEN @ + 1 ELSE @]
  /\ incs' = [incs EXCEPT ![j] = IF IncrementsUser(j) /\ fxUp THEN @ + 1 ELSE @]
  /\ user' = IF IncrementsUser(j) /\ fxUp THEN incrementDeployment(user) ELSE user
  /\ warned' = [warned EXCEPT ![j] = @ \/ FxFails(j)]

\* A handler whose side effects are not wrapped: a rejected one reaches the
\* handler's catch, which writes 'failed' and rethrows.
HandlerReturnsUncaught(j) ==
  /\ pc[j] = "post"
  /\ SideEffects(j)
  /\ pc' = [pc EXCEPT ![j] = "idle"]
  /\ IF FxFails(j)
       THEN /\ store' = [store EXCEPT ![j] = FindByIdAndUpdate(@,
                  [status |-> "failed", result |-> NullResult, error |-> "raised"])]
            /\ attempts' = [attempts EXCEPT ![j] = @ + 1]
            /\ bull' = [bull EXCEPT ![j] = IF attempts[j] + 1 < MaxAttempts THEN "waiting" ELSE "failed"]
       ELSE /\ bull' = [bull EXCEPT ![j] = "completed"]
            /\ UNCHANGED <<store, attempts>>
  /\ emitted' = [emitted EXCEPT ![j] = 0]
  /\ outcome' = [outcome EXCEPT ![j] = "none"]
  /\ UNCHANGED <<capVars, compVars, svcVars, pollVars, keyVars, now, ret, stalled, ipc, ires, runVars, fsVars, got, env, ing, jtype, resp, calls, pending, bus, hubUp, maxReq, rooms, recv>>

\* The side effects after the terminal write, then `return {...}`: the
\* handler resolves, whether the runner reported success or failure, and
\* BullMQ moves the job to completed.
HandlerReturns(j) ==
  /\ pc[j] = "post"
  /\ SideEffects(j)
  /\ pc' = [pc EXCEPT ![j] = "idle"]
  /\ bull' = [bull EXCEPT ![j] = "completed"]
  /\ emitted' = [emitted EXCEPT ![j] = 0]
  /\ outcome' = [outcome EXCEPT ![j] = "none"]
  /\ UNCHANGED <<capVars, compVars, svcVars, pollVars, keyVars, now, ret, stalled, ipc, ires, runVars, fsVars, got, env, ing, jtype, resp, store, attempts, calls, pending, bus, hubUp, maxReq, rooms, recv>>

\* The worker process dies after the side effects and before the processor
\* resolves: the job's lock expires and BullMQ's stalled-jobs check moves the
\* job back to wait, once (a job that stalls again is failed).
WorkerStalls(j) ==
  /\ pc[j] = "post"
  /\ ~stalled[j]
  /\ SideEffects(j)
  /\ stalled' = [stalled EXCEPT ![j] = TRUE]
  /\ pc' = [pc EXCEPT ![j] = "idle"]
  /\ bull' = [bull EXCEPT ![j] = "waiting"]
  /\ emitted' = [emitted EXCEPT ![j] = 0]
  /\ outcome' = [outcome EXCEPT ![j] = "none"]
  /\ UNCHANGED <<capVars, compVars, svcVars, pollVars, keyVars, now, ret, ipc, ires, runVars, fsVars, got, env, ing, jtype, resp, store, attempts, calls, pending, bus, hubUp, maxReq, rooms, recv>>

\* BullMQ on a rejected processor: attemptsMade + 1; below `attempts` the job
\* is retried after the backoff, otherwise it is moved to failed.
AfterThrow(made) == IF made + 1 < MaxAttempts THEN "waiting" ELSE "failed"

\* catch (error): the failed write with the single error log, then
\* `throw error`.
CatchAndThrow(j) ==
  /\ pc[j] = "caught"
  /\ store' = [store EXCEPT ![j] = FindByIdAndUpdate(@,
       [status |-> "failed",
        result |-> [null |-> FALSE, success |-> FALSE, logs |-> <<CaughtLog>>,
                    error |-> "raised"],
        error |-> "raised"])]
  /\ pc' = [pc EXCEPT ![j] = "idle"]
  /\ attempts' = [attempts EXCEPT ![j] = @ + 1]
  /\ bull' = [bull EXCEPT ![j] = AfterThrow(attempts[j])]
  /\ emitted' = [emitted EXCEPT ![j] = 0]
  /\ outcome' = [outcome EXCEPT ![j] = "none"]
  /\ UNCHANGED <<quotaVars, auxVars, env, ing, jtype, resp, calls, pending, bus, hubUp, maxReq, rooms, recv>>

\* ------------------------------------------------------------- socket hub
\* socket.on('subscribe:job'): socket.join(`job:${jobId}`) and nothing else.
Subscribe(s, j) ==
  /\ rooms' = [rooms EXCEPT ![j] = @ \cup {s}]
  /\ UNCHANGED <<quotaVars, auxVars, env, ing, jtype, resp, store, bull, attempts, calls, pc, emitted,
                 outcome, pending, bus, hubUp, maxReq, recv>>

\* socket.leave(room): the room without the socket; the same room when the
\* socket is not in it.
Leave(room, s) == room \ {s}

\* socket.on('unsubscribe:job'): socket.leave(`job:${jobId}`).
Unsubscribe(s, j) ==
  /\ rooms' = [rooms EXCEPT ![j] = Leave(@, s)]
  /\ UNCHANGED <<quotaVars, auxVars, env, ing, jtype, resp, store, bull, attempts, calls, pc, emitted,
                 outcome, pending, bus, hubUp, maxReq, recv>>

\* The event the pmessage handler emits for a bus message: 'job:log' with
\* {jobId, log} or 'job:status' with {jobId, status, result}.
Event(j, msg) ==
  [job |-> j, name |-> IF msg.ch = "log" THEN "job:log" ELSE "job:status",
   log |-> msg.log, status |-> msg.status]

\* A hub that emits to every connected socket.
ForwardAll(j) ==
  /\ bus[j] # <<>>
  /\ bus' = [bus EXCEPT ![j] = Tail(@)]
  /\ recv' = [s \in Sockets |-> Append(recv[s], Event(j, Head(bus[j])))]
  /\ UNCHANGED <<quotaVars, auxVars, env, ing, jtype, resp, store, bull, attempts, calls, pc, emitted,
                 outcome, pending, hubUp, maxReq, rooms>>

\* redisSubscriber.on('pmessage'): the server receives the oldest message
\* of the channel and emits it to the sockets now in the room.
Forward(j) ==
  /\ bus[j] # <<>>
  /\ bus' = [bus EXCEPT ![j] = Tail(@)]
  /\ recv' = [s \in Sockets |->
       IF s \in rooms[j] THEN Append(recv[s], Event(j, Head(bus[j]))) ELSE recv[s]]
  /\ UNCHANGED <<quotaVars, auxVars, env, ing, jtype, resp, store, bull, attempts, calls, pc, emitted,
                 outcome, pending, hubUp, maxReq, rooms>>

\* ------------------------------------------------------------------ specs
Next ==
  \/ \E j \in Jobs, t \in Types : PostEnqueue(j, t)
  \/ \E j \in Jobs : PostSave(j)
  \/ \E j \in Jobs : Dispatch(j)
  \/ \E j \in Jobs : MarkActive(j)
  \/ \E j \in Jobs : EmitLog(j)
  \/ \E j \in Jobs, k \in 1..(MaxLogs + 1) : ApplyLogUpdate(j, k)
  \/ \E j \in Jobs, o \in {"ok", "err", "raise"} : RunnerEnds(j, o)
  \/ \E j \in Jobs : TerminalWrite(j)
  \/ \E j \in Jobs : HandlerReturns(j)
  \/ \E j \in Jobs : CatchAndThrow(j)

\* Lifecycle of the jobs of MaxJobs requests.
Spec == Init /\ [][Next]_vars

\* The steps that decide which handlers run: the ingress, the broker and the
\* handlers' own steps, with runners that emit no log record.
NextConc ==
  \/ \E j \in Jobs, t \in Types : PostEnqueue(j, t)
  \/ \E j \in Jobs : PostSave(j)
  \/ \E j \in Jobs : Dispatch(j)
  \/ \E j \in Jobs : MarkActive(j)
  \/ \E j \in Jobs, o \in {"ok", "err", "raise"} : RunnerEnds(j, o)
  \/ \E j \in Jobs : TerminalWrite(j)
  \/ \E j \in Jobs : HandlerReturns(j)
  \/ \E j \in Jobs : CatchAndThrow(j)

\* MaxPayloads requests and workers started with the concurrency variable
\* unset or "1".
SpecConc == InitConc /\ [][NextConc]_vars

NextSock ==
  \/ Next
  \/ \E s \in Sockets, j \in 1..MaxJobs : Subscribe(s, j)
  \/ \E s \in Sockets, j \in 1..MaxJobs : Unsubscribe(s, j)
  \/ \E j \in Jobs : Forward(j)

\* The lifecycle with the API server's socket hub and its clients.
SpecSock == InitSock /\ [][NextSock]_vars

\* ------------------------------------------------------------ quota gate
jobVars == <<env, ing, jtype, resp, store, bull, attempts, calls, pc, emitted,
             outcome, pending, bus, hubUp, maxReq, rooms, recv>>

Called(op) == [NoRet EXCEPT !.op = op]

UpdateSubscription(plan) ==
  /\ user' = updateSubscription(user, plan)
  /\ ret' = Called("updateSubscription")
  /\ UNCHANGED <<now, jobVars, auxVars>>

CanDeploy ==
  /\ user' = canDeployUser(user, now)
  /\ ret' = canDeployRet(user, now)
  /\ UNCHANGED <<now, jobVars, auxVars>>

CanTestFunction ==
  /\ user' = canTestFunctionUser(user, now)
  /\ ret' = canTestFunctionRet(user, now)
  /\ UNCHANGED <<now, jobVars, auxVars>>

IncrementDeployment ==
  /\ user.dCount < MaxCount
  /\ user' = incrementDeployment(user)
  /\ ret' = Called("incrementDeployment")
  /\ UNCHANGED <<now, jobVars, auxVars>>

IncrementFunctionTest ==
  /\ user.fCount < MaxCount
  /\ user' = incrementFunctionTest(user)
  /\ ret' = Called("incrementFunctionTest")
  /\ UNCHANGED <<now, jobVars, auxVars>>

\* Time passes: one tick, or one tick less than the reset period.
Advance(d) ==
  /\ now + d <= MaxDays * TicksPerDay
  /\ now' = now + d
  /\ ret' = Called("advance")
  /\ UNCHANGED <<user, jobVars, auxVars>>

NextQuota ==
  \/ \E plan \in Plans : UpdateSubscription(plan)
  \/ CanDeploy
  \/ CanTestFunction
  \/ IncrementDeployment
  \/ IncrementFunctionTest
  \/ \E d \in {1, ResetDays * TicksPerDay - 1} : Advance(d)

\* The calls on one user document.
SpecQuota == Init /\ [][NextQuota]_vars

\* ----------------------------------------------- contract invoke route
\* router.post('/:contractAddress/invoke'): user.canTestFunction(), 403 when
\* it does not allow.
InvokeAdmit ==
  /\ ipc = "idle"
  /\ user' = canTestFunctionUser(user, now)
  /\ ret' = canTestFunctionRet(user, now)
  /\ ipc' = IF canTestFunctionRet(user, now).allowed THEN "admitted" ELSE "idle"
  /\ ires' = IF canTestFunctionRet(user, now).allowed THEN "none" ELSE "denied"
  /\ UNCHANGED <<capVars, compVars, svcVars, pollVars, keyVars, now, jobVars, history, incs, stalled, warned, runVars, fsVars, got>>

\* invokeContract resolved with {success: ok}: incrementFunctionTest() comes
\* before the route looks at result.success; then 200 or 400.
InvokeReturns(ok) ==
  /\ ipc = "admitted"
  /\ user' = incrementFunctionTest(user)
  /\ ret' = Called("incrementFunctionTest")
  /\ ipc' = "idle"
  /\ ires' = IF ok THEN "ok" ELSE "bad"
  /\ UNCHANGED <<capVars, compVars, svcVars, pollVars, keyVars, now, jobVars, history, incs, stalled, warned, runVars, fsVars, got>>

\* ------------------------------------------------ deploys and their quota
\* A free-tier user document with no deployment, or with as many as its limit.
InitDeploy ==
  /\ InitJobs({"unset"}, MaxJobs, FALSE)
  /\ logCap = MaxLogs
  /\ fxUp = TRUE
  /\ NoToolchain
  /\ user \in {NewUser, [NewUser EXCEPT !.dCount = NewUser.dLimit]}
  /\ wasm = <<>>
  /\ cliOut = <<>>

NextDeploy ==
  \/ NextConc
  \/ \E j \in Jobs : WorkerStalls(j)
  \/ InvokeAdmit
  \/ \E ok \in BOOLEAN : InvokeReturns(ok)

\* The jobs of MaxJobs requests with their side effects on the project and
\* on the user's usage counters, and the contract invoke route.
SpecDeploy == InitDeploy /\ [][NextDeploy]_vars

\* The worker handlers when MongoDB may reject the side effects' updates.
InitFx ==
  /\ InitJobs({"unset"}, MaxJobs, FALSE)
  /\ logCap = MaxLogs
  /\ fxUp \in BOOLEAN
  /\ NoToolchain
  /\ user = NewUser
  /\ wasm = <<>>
  /\ cliOut = <<>>

SpecFx == InitFx /\ [][NextDeploy]_vars

\* ------------------------------------------------ extractContractId
\* A JavaScript string is the sequence of its characters.
Chars(n, c) == [i \in 1..n |-> c]
IsSpace(c) == c \in {" ", "\t", "\r", "\n"}
UpperAlnum ==
  {"A", "B", "C", "D", "E", "F", "G", "H", "I", "J", "K", "L", "M", "N", "O", "P", "Q",
   "R", "S", "T", "U", "V", "W", "X", "Y", "Z", "0", "1", "2", "3", "4", "5", "6", "7",
   "8", "9"}

\* p occurs in str at index i.
MatchAt(str, p, i) == i >= 1 /\ i + Len(p) - 1 <= Len(str) /\ SubSeq(str, i, i + Len(p) - 1) = p
\* str.startsWith(p), str.includes(p), str.indexOf(p) (0 when absent).
StartsWith(str, p) == MatchAt(str, p, 1)
Includes(str, p) == \E i \in 1..Len(str) : MatchAt(str, p, i)
IndexOf(str, p) ==
  IF Includes(str, p)
    THEN CHOOSE i \in 1..Len(str) : MatchAt(str, p, i) /\ \A k \in 1..(i - 1) : ~MatchAt(str, p, k)
    ELSE 0

\* str.trim()
Trim(str) ==
  IF \A i \in 1..Len(str) : IsSpace(str[i]) THEN <<>>
  ELSE LET first == CHOOSE i \in 1..Len(str) : ~IsSpace(str[i]) /\ \A k \in 1..(i - 1) : IsSpace(str[k])
           last == CHOOSE i \in 1..Len(str) : ~IsSpace(str[i]) /\ \A k \in (i + 1)..Len(str) : IsSpace(str[k])
       IN SubSeq(str, first, last)

\* str.split(p)[1] for a str that includes p: the text between the first
\* occurrence of p and the next one (or the end).
SplitSecond(str, p) ==
  LET rest == SubSeq(str, IndexOf(str, p) + Len(p), Len(str))
  IN IF Includes(rest, p) THEN SubSeq(rest, 1, IndexOf(rest, p) - 1) ELSE rest

\* output.split('\n')
RECURSIVE SplitLines(_)
SplitLines(str) ==
  IF Includes(str, <<"\n">>)
    THEN <<SubSeq(str, 1, IndexOf(str, <<"\n">>) - 1)>>
           \o SplitLines(SubSeq(str, IndexOf(str, <<"\n">>) + 1, Len(str)))
    ELSE <<str>>

\* \s* from index i: the index of the first character that is not white space.
SkipSpaces(str, i) ==
  CHOOSE k \in i..(Len(str) + 1) :
    /\ \A m \in i..(k - 1) : IsSpace(str[m])
    /\ k <= Len(str) => ~IsSpace(str[k])

\* [A-Z0-9]+ from index i, greedy: the index of the last character of the run
\* (i - 1 when there is none).
RunEnd(str, i) ==
  CHOOSE e \in (i - 1)..Len(str) :
    /\ \A m \in i..e : str[m] \in UpperAlnum
    /\ e < Len(str) => str[e + 1] \notin UpperAlnum

\* The literals extractContractId looks for.
ContractIdLit == <<"C", "o", "n", "t", "r", "a", "c", "t", " ", "I", "D", ":">>
IdColonLit == <<"i", "d", ":">>
JsonIdLit == <<"\"", "i", "d", "\"">>
JsonIdColonLit == <<"\"", "i", "d", "\"", ":">>
\* A line of the CLI without a contract id.
DeployedLit == <<"d", "e", "p", "l", "o", "y", "e", "d">>

NoMatch == [found |-> FALSE, id |-> <<>>]

\* The capture of /id:\s*(C[A-Z0-9]+)/ with "id:" at index i.
IdColonAt(str, i) ==
  LET k == SkipSpaces(str, i + 3) IN
    IF MatchAt(str, IdColonLit, i) /\ k <= Len(str) /\ str[k] = "C" /\ RunEnd(str, k + 1) >= k + 1
      THEN [found |-> TRUE, id |-> SubSeq(str, k, RunEnd(str, k + 1))]
      ELSE NoMatch

\* The capture of /"id":\s*"(C[A-Z0-9]+)"/ with "id": at index i.
JsonIdAt(str, i) ==
  LET k == SkipSpaces(str, i + 5) IN
    IF /\ MatchAt(str, JsonIdColonLit, i)
       /\ k + 1 <= Len(str) /\ str[k] = "\"" /\ str[k + 1] = "C"
       /\ RunEnd(str, k + 2) >= k + 2
       /\ RunEnd(str, k + 2) < Len(str) /\ str[RunEnd(str, k + 2) + 1] = "\""
      THEN [found |-> TRUE, id |-> SubSeq(str, k + 1, RunEnd(str, k + 2))]
      ELSE NoMatch

\* line.match(/id:\s*(C[A-Z0-9]+)/): the match at the leftmost index.
MatchIdColon(str) ==
  IF \E i \in 1..Len(str) : IdColonAt(str, i).found
    THEN IdColonAt(str, CHOOSE i \in 1..Len(str) :
                          IdColonAt(str, i).found /\ \A k \in 1..(i - 1) : ~IdColonAt(str, k).found)
    ELSE NoMatch

\* line.match(/"id":\s*"(C[A-Z0-9]+)"/): the match at the leftmost index.
MatchJsonId(str) ==
  IF \E i \in 1..Len(str) : JsonIdAt(str, i).found
    THEN JsonIdAt(str, CHOOSE i \in 1..Len(str) :
                         JsonIdAt(str, i).found /\ \A k \in 1..(i - 1) : ~JsonIdAt(str, k).found)
    ELSE NoMatch

\* The body of the for loop: the four tests on one line, in the code's order.
LineId(line) ==
  IF StartsWith(Trim(line), <<"C">>) /\ Len(Trim(line)) > MinWholeLine
    THEN [found |-> TRUE, id |-> Trim(line)]
  ELSE IF /\ Includes(line, ContractIdLit)
          /\ Trim(SplitSecond(line, ContractIdLit)) # <<>>
          /\ StartsWith(Trim(SplitSecond(line, ContractIdLit)), <<"C">>)
    THEN [found |-> TRUE, id |-> Trim(SplitSecond(line, ContractIdLit))]
  ELSE IF Includes(line, IdColonLit) /\ Includes(line, <<"C">>) /\ MatchIdColon(line).found
    THEN MatchIdColon(line)
  ELSE IF Includes(line, JsonIdLit) /\ Includes(line, <<"C">>) /\ MatchJsonId(line).found
    THEN MatchJsonId(line)
  ELSE NoMatch

\* for (const line of lines): the first line with a result; null otherwise.
RECURSIVE FirstLineId(_)
FirstLineId(lines) ==
  IF lines = <<>> THEN NoMatch
  ELSE IF LineId(Head(lines)).found THEN LineId(Head(lines))
  ELSE FirstLineId(Tail(lines))

extractContractId(output) ==
  [ran |-> FALSE, found |-> FirstLineId(SplitLines(output)).found,
   id |-> FirstLineId(SplitLines(output)).id]

\* The outputs the CLI prints: up to MaxLines lines, each one of the shapes
\* extractContractId knows or other text.
LongId == <<"C">> \o Chars(IdLen - 1, "A")
ShortId == <<"C", "A", "B">>
Shape(k, tok) ==
  CASE k = 1 -> tok
    [] k = 2 -> ContractIdLit \o <<" ">> \o tok
    [] k = 3 -> IdColonLit \o <<" ">> \o tok
    [] k = 4 -> JsonIdColonLit \o <<" ", "\"">> \o tok \o <<"\"">>
OtherLines == {<<>>, DeployedLit, IdColonLit \o <<" ">> \o DeployedLit}
OutLines == {Shape(k, tok) : k \in 1..4, tok \in {LongId, ShortId}} \cup {<<" ", " ">> \o LongId} \cup OtherLines
RECURSIVE JoinLines(_)
JoinLines(lines) ==
  IF Len(lines) = 1 THEN lines[1] ELSE lines[1] \o <<"\n">> \o JoinLines(Tail(lines))
Outputs == UNION {{JoinLines(ls) : ls \in [1..n -> OutLines]} : n \in 1..MaxLines}
SampleOutputs == {DeployedLit, LongId}

\* ------------------------------------------------- deployContract, by step
\* catch (error): return {success: false, logs, error: error.message}
DeployFailed(msg) == [success |-> FALSE, error |-> msg]

\* Up to "Write WASM file", on the default network 'testnet': the CLI and
\* configuration checks (cfgOk), ensureDefaultKeypair (keyOk: it returned
\* true), `stellar keys fund` (its failure is only logged), then the project
\* directory and contract.wasm (dirOk). A failed check throws.
DeployPrepares(cfgOk, keyOk, dirOk) ==
  /\ dstep = "start"
  /\ dstep' = IF cfgOk /\ keyOk /\ dirOk THEN "written" ELSE "done"
  /\ dres' = IF cfgOk /\ keyOk /\ dirOk THEN dres ELSE DeployFailed("setup failed")
  /\ keyed' = cfgOk
  /\ funded' = (cfgOk /\ keyOk)
  /\ UNCHANGED <<capVars, compVars, svcVars, pollVars, keyVars, quotaVars, fxVars, fsVars, got, jobVars, wasm, spawned, cliOut, extracted>>

\* "Validate WASM file": throw when validation.valid is false.
DeployValidates ==
  /\ dstep = "written"
  /\ dstep' = IF validateWasmFile(wasm).valid THEN "validated" ELSE "done"
  /\ dres' = IF validateWasmFile(wasm).valid THEN dres ELSE DeployFailed("Invalid WASM file")
  /\ UNCHANGED <<capVars, compVars, svcVars, pollVars, keyVars, quotaVars, fxVars, fsVars, got, jobVars, wasm, spawned, keyed, funded, cliOut, extracted>>

\* The size check on disk and the keypair checks, then spawn('stellar',
\* ['contract', 'deploy', ...]).
DeploySpawns(ok) ==
  /\ dstep = "validated"
  /\ dstep' = IF ok THEN "spawned" ELSE "done"
  /\ spawned' = ok
  /\ dres' = IF ok THEN dres ELSE DeployFailed("Keypair not accessible")
  /\ UNCHANGED <<capVars, compVars, svcVars, pollVars, keyVars, quotaVars, fxVars, fsVars, got, jobVars, wasm, keyed, funded, cliOut, extracted>>

\* The CLI closes with exit code 0 or not; on 0, extractContractId is applied
\* to the output and a null result throws.
DeployExits(zero) ==
  /\ dstep = "spawned"
  /\ dstep' = "done"
  /\ extracted' = IF zero THEN [extractContractId(cliOut) EXCEPT !.ran = TRUE] ELSE extracted
  /\ dres' = IF zero /\ extractContractId(cliOut).found THEN [success |-> TRUE, error |-> Null]
             ELSE IF zero THEN DeployFailed("Failed to extract contract ID")
             ELSE DeployFailed("Deployment process exited")
  /\ UNCHANGED <<capVars, compVars, svcVars, pollVars, keyVars, quotaVars, fxVars, fsVars, got, jobVars, wasm, spawned, keyed, funded, cliOut>>

InitWasm ==
  /\ InitJobs({"unset"}, MaxJobs, FALSE)
  /\ logCap = MaxLogs
  /\ fxUp = TRUE
  /\ NoToolchain
  /\ user = NewUser
  /\ wasm \in WasmInputs
  /\ cliOut \in SampleOutputs

NextWasm ==
  \/ \E cfgOk, keyOk, dirOk \in BOOLEAN : DeployPrepares(cfgOk, keyOk, dirOk)
  \/ DeployValidates
  \/ \E ok \in BOOLEAN : DeploySpawns(ok)
  \/ \E zero \in BOOLEAN : DeployExits(zero)

\* One run of deployContract on each byte string.
SpecWasm == InitWasm /\ [][NextWasm]_vars

\* ------------------------------------------ runners and their directories
Running(t) == {j \in Jobs : rstep[j] \in {"clean", "written"} /\ rdir[j][1] = t}

\* The worker hands job j, of project p, to the runner: fs.remove(projectDir)
\* and fs.ensureDir(projectDir).
RunStarts(j, t, p) ==
  /\ rstep[j] = "idle"
  /\ Cardinality(Running(t)) < Concurrency(t)
  /\ rdir' = [rdir EXCEPT ![j] = ProjectDir(t, p)]
  /\ disk' = [disk EXCEPT ![ProjectDir(t, p)] = {}]
  /\ onDisk' = onDisk \cup {ProjectDir(t, p)}
  /\ rstep' = [rstep EXCEPT ![j] = "clean"]
  /\ rexit' = [rexit EXCEPT ![j] = "none"]
  /\ UNCHANGED <<capVars, compVars, svcVars, pollVars, keyVars, quotaVars, fxVars, runVars, got, jobVars>>

\* The runner writes the job's files. compileProject calls
\* fs.ensureDir(path.dirname(filePath)) before each fs.writeFile;
\* deployContract writes contract.wasm into the directory, which must exist.
RunWrites(j) ==
  /\ rstep[j] = "clean"
  /\ rdir[j][1] = "compile" \/ rdir[j] \in onDisk
  /\ disk' = [disk EXCEPT ![rdir[j]] = @ \cup {j}]
  /\ onDisk' = onDisk \cup {rdir[j]}
  /\ rstep' = [rstep EXCEPT ![j] = "written"]
  /\ UNCHANGED <<capVars, compVars, svcVars, pollVars, keyVars, quotaVars, fxVars, runVars, got, jobVars, rdir, rexit>>

\* A runner that removes its directory only before it returns success.
RunCleansOnSuccess(j, how) ==
  /\ rstep[j] \in {"clean", "written"}
  /\ how \in RunnerOutcomes(rdir[j][1])
  /\ rstep[j] = "clean" => how # "ok"
  /\ disk' = IF how = "ok" THEN [disk EXCEPT ![rdir[j]] = {}] ELSE disk
  /\ onDisk' = IF how = "ok" THEN onDisk \ {rdir[j]} ELSE onDisk
  /\ rstep' = [rstep EXCEPT ![j] = "done"]
  /\ rexit' = [rexit EXCEPT ![j] = how]
  /\ UNCHANGED <<capVars, compVars, svcVars, pollVars, keyVars, quotaVars, fxVars, runVars, got, jobVars, rdir>>

\* The runner leaves its try block: it returns success (only after it wrote
\* its files), returns a failure, or - compileProject, whose catch throws -
\* raises. On each way out, finally: fs.remove(projectDir).
RunCleans(j, how) ==
  /\ rstep[j] \in {"clean", "written"}
  /\ how \in RunnerOutcomes(rdir[j][1])
  /\ rstep[j] = "clean" => how # "ok"
  /\ disk' = [disk EXCEPT ![rdir[j]] = {}]
  /\ onDisk' = onDisk \ {rdir[j]}
  /\ rstep' = [rstep EXCEPT ![j] = "done"]
  /\ rexit' = [rexit EXCEPT ![j] = how]
  /\ UNCHANGED <<capVars, compVars, svcVars, pollVars, keyVars, quotaVars, fxVars, runVars, got, jobVars, rdir>>

NextDirs ==
  \/ \E j \in Jobs, t \in Types, p \in Projects : RunStarts(j, t, p)
  \/ \E j \in Jobs : RunWrites(j)
  \/ \E j \in Jobs, how \in {"ok", "err", "raise"} : RunCleans(j, how)

\* The runners of the jobs a worker has in flight, and the files on disk.
SpecDirs == Init /\ [][NextDirs]_vars

\* ----------------------------------------------------- the API's routes
\* A route that saves the Job document before it enqueues.
PostEnqueueFailsSaved(j, t) ==
  /\ ing[j] = "idle"
  /\ j <= maxReq
  /\ \A i \in Jobs : i < j => ing[i] # "idle"
  /\ ing' = [ing EXCEPT ![j] = "enqfail"]
  /\ jtype' = [jtype EXCEPT ![j] = t]
  /\ resp' = [resp EXCEPT ![j] = 500]
  /\ store' = [store EXCEPT ![j] =
        [exists |-> TRUE, status |-> "queued", result |-> NullResult, error |-> Null]]
  /\ UNCHANGED <<quotaVars, auxVars, env, bull, attempts, calls, pc, emitted, outcome, pending, bus, hubUp, maxReq, rooms, recv>>

\* router.post('/'): addCompileJob / addDeployJob rejects (the broker is
\* unreachable): the catch answers 500; `new Job(...)` comes later in the try.
PostEnqueueFails(j, t) ==
  /\ ing[j] = "idle"
  /\ j <= maxReq
  /\ \A i \in Jobs : i < j => ing[i] # "idle"
  /\ ing' = [ing EXCEPT ![j] = "enqfail"]
  /\ jtype' = [jtype EXCEPT ![j] = t]
  /\ resp' = [resp EXCEPT ![j] = 500]
  /\ UNCHANGED <<quotaVars, auxVars, env, store, bull, attempts, calls, pc, emitted, outcome, pending, bus, hubUp, maxReq, rooms, recv>>

\* router.get('/:id'): Job.findById(id); 404 when there is no document,
\* otherwise the document's fields. The route does not look at the requester.
GetJob(r, j) ==
  /\ got' = IF store[j].exists
              THEN [who |-> r, id |-> j, code |-> 200, status |-> store[j].status]
              ELSE [who |-> r, id |-> j, code |-> 404, status |-> "none"]
  /\ UNCHANGED <<capVars, compVars, svcVars, pollVars, keyVars, quotaVars, fxVars, runVars, fsVars, jobVars>>

NextApi ==
  \/ NextConc
  \/ \E j \in Jobs, t \in Types : PostEnqueueFails(j, t)
  \/ \E r \in Requesters, j \in 1..MaxJobs : GetJob(r, j)

\* The ingress with a broker that can refuse, the workers, and GET requests.
SpecApi == Init /\ [][NextApi]_vars

\* ------------------------------------------------------- logs of one job
\* The API server is subscribed to the bus, nobody consumes it, and a runner
\* emits up to MaxLogs + 1 records.
InitLogs ==
  /\ InitJobs({"unset"}, MaxJobs, TRUE)
  /\ user = NewUser
  /\ wasm = <<>>
  /\ cliOut = <<>>
  /\ logCap = MaxLogs + 1
  /\ fxUp = TRUE
  /\ NoToolchain

\* The log records of the jobs of MaxJobs requests, on the bus and in the store.
SpecLogs == InitLogs /\ [][Next]_vars

\* deployContract over the outputs of the CLI, with a WASM that validates.
InitIds ==
  /\ InitJobs({"unset"}, MaxJobs, FALSE)
  /\ logCap = MaxLogs
  /\ fxUp = TRUE
  /\ NoToolchain
  /\ user = NewUser
  /\ wasm = WasmMagic \o WasmVersion \o <<1>>
  /\ cliOut \in Outputs

SpecIds == InitIds /\ [][NextWasm]_vars

\* --------------------------------------- concurrent invoke requests
\* document.save(): Mongoose writes the paths that were modified on this
\* copy since it was loaded, and leaves the other paths of the stored
\* document alone.
Save(stored, orig, doc) ==
  [f \in DOMAIN stored |-> IF doc[f] # orig[f] THEN doc[f] ELSE stored[f]]

\* authenticate: req.user = await User.findById(decoded.userId), a copy of
\* the stored document for this request.
Authenticate(r) ==
  /\ sess[r].pc = "idle"
  /\ invoked < MaxCount
  /\ sess' = [sess EXCEPT ![r] = [pc |-> "loaded", orig |-> user, doc |-> user]]
  /\ UNCHANGED <<quotaVars, fxVars, runVars, fsVars, got, capVars, compVars, pollVars, keyVars, jobVars, invoked>>

\* const canTest = user.canTestFunction() on the request's copy (its reset
\* calls this.save()); 403 when not allowed, otherwise invokeContract starts.
InvokeChecks(r) ==
  /\ sess[r].pc = "loaded"
  /\ LET doc == canTestFunctionUser(sess[r].doc, now) IN
       /\ sess' = [sess EXCEPT ![r].doc = doc,
                               ![r].pc = IF canTestFunctionRet(sess[r].doc, now).allowed
                                           THEN "invoking" ELSE "idle"]
       /\ user' = Save(user, sess[r].orig, doc)
  /\ UNCHANGED <<now, ret, fxVars, runVars, fsVars, got, capVars, compVars, pollVars, keyVars, jobVars, invoked>>

\* invokeContract resolved: await user.incrementFunctionTest() on the
\* request's copy, then the response. When it rejected, the inner catch
\* answers 500 without the increment.
InvokeCompletes(r, resolved) ==
  /\ sess[r].pc = "invoking"
  /\ LET doc == IF resolved THEN incrementFunctionTest(sess[r].doc) ELSE sess[r].doc IN
       /\ sess' = [sess EXCEPT ![r] = NoSession]
       /\ user' = Save(user, sess[r].orig, doc)
  /\ invoked' = IF resolved THEN invoked + 1 ELSE invoked
  /\ UNCHANGED <<now, ret, fxVars, runVars, fsVars, got, capVars, compVars, pollVars, keyVars, jobVars>>

NextInvoke ==
  \/ \E r \in Sessions : Authenticate(r)
  \/ \E r \in Sessions : InvokeChecks(r)
  \/ \E r \in Sessions, resolved \in BOOLEAN : InvokeCompletes(r, resolved)

\* The invoke route under concurrent requests of one free-tier user.
SpecInvoke == Init /\ [][NextInvoke]_vars

\* ------------------------------------------- the container's log polling
\* The lines of the container's output are numbered 1, 2, ... in output
\* order, and a list of consecutive lines is written as the run lo..hi of
\* their numbers (the empty list has hi = lo - 1).
RunLen(run) == run.hi - run.lo + 1

\* container.logs({tail: 1000}) answered when n lines were printed: the
\* last 1000 of them (blank lines are filtered out; none is modelled).
LogLines(n) == [lo |-> n - Min(n, TailLimit) + 1, hi |-> n]

\* lines.slice(count)
SliceFrom(lines, count) == [lo |-> Min(lines.lo + count, lines.hi + 1), hi |-> lines.hi]

\* The log after one record for each line of run, in order: a list of runs,
\* in which a run that continues the last one is joined to it.
Logged(log, run) ==
  IF RunLen(run) = 0 THEN log
  ELSE IF log # <<>> /\ log[Len(log)].hi + 1 = run.lo
       THEN [log EXCEPT ![Len(log)].hi = run.hi]
       ELSE Append(log, run)

\* seq without its i-th element.
Without(seq, i) == SubSeq(seq, 1, i - 1) \o SubSeq(seq, i + 1, Len(seq))

\* The container prints k more lines.
ContainerPrints(k) ==
  /\ pstep = "running"
  /\ cout + k <= MaxOut + TailLimit
  /\ (cout + k) % TailLimit <= MaxOut
  /\ cout' = cout + k
  /\ UNCHANGED <<quotaVars, fxVars, runVars, fsVars, got, capVars, compVars, svcVars, keyVars, jobVars, polls, nfired, processed, plog, pstep>>

\* setInterval(pollLogs, 500): the timer calls pollLogs, which asks for the
\* container's logs and awaits the answer. The timer does not wait for the
\* calls it made before.
PollFires ==
  /\ pstep = "running"
  /\ Len(polls) < MaxPolls
  /\ nfired < MaxFired
  /\ polls' = Append(polls, cout)
  /\ nfired' = nfired + 1
  /\ UNCHANGED <<quotaVars, fxVars, runVars, fsVars, got, capVars, compVars, svcVars, keyVars, jobVars, cout, processed, plog, pstep>>

\* What pollLogs does once container.logs() has answered n lines:
\* newLines = lines.slice(processedLogCount); processedLogCount =
\* lines.length; one log record for each new line.
PollLogged(n) == Logged(plog, SliceFrom(LogLines(n), processed))
PollCounted(n) == RunLen(LogLines(n))

\* The answer to one of the timer's calls arrives; the answers need not
\* arrive in the order of the calls.
PollResumes(i) ==
  /\ i \in DOMAIN polls
  /\ plog' = PollLogged(polls[i])
  /\ processed' = PollCounted(polls[i])
  /\ polls' = Without(polls, i)
  /\ UNCHANGED <<quotaVars, fxVars, runVars, fsVars, got, capVars, compVars, svcVars, keyVars, jobVars, cout, nfired, pstep>>

\* container.wait() resolves: clearInterval(logInterval), then the final
\* pollLogs() is called and awaited.
ContainerExits ==
  /\ pstep = "running"
  /\ pstep' = "final"
  /\ UNCHANGED <<quotaVars, fxVars, runVars, fsVars, got, capVars, compVars, svcVars, keyVars, jobVars, cout, polls, nfired, processed, plog>>

\* The final poll's answer, with all the lines of the container, arrives.
FinalPollResumes ==
  /\ pstep = "final"
  /\ plog' = PollLogged(cout)
  /\ processed' = PollCounted(cout)
  /\ pstep' = "finished"
  /\ UNCHANGED <<quotaVars, fxVars, runVars, fsVars, got, capVars, compVars, svcVars, keyVars, jobVars, cout, polls, nfired>>

NextPoll ==
  \/ \E k \in {1, TailLimit} : ContainerPrints(k)
  \/ PollFires
  \/ \E i \in 1..MaxPolls : PollResumes(i)
  \/ ContainerExits
  \/ FinalPollResumes

\* The container backend's log polling during one compile.
SpecPoll == Init /\ [][NextPoll]_vars

\* ------------------------------------------- the default signing identity
Networks == {"testnet", "mainnet"}

\* deployContract of deploy d reaches `await this.ensureDefaultKeypair(network)`.
KeyDeployStarts(d, network) ==
  /\ kd[d].pc = "idle"
  /\ kd' = [kd EXCEPT ![d] = [pc |-> "address", net |-> network, out |-> "none"]]
  /\ UNCHANGED <<quotaVars, fxVars, runVars, fsVars, got, capVars, compVars, svcVars, pollVars, jobVars, kp>>

\* `stellar keys address deploy_keypair` exits: zero when the identity
\* exists (return true), non-zero otherwise (the catch goes on to create it).
KeyAddress(d) ==
  /\ kd[d].pc = "address"
  /\ kd' = [kd EXCEPT ![d] = IF kp THEN [@ EXCEPT !.pc = "proceeds", !.out = "found"]
                                   ELSE [@ EXCEPT !.pc = "generate"]]
  /\ UNCHANGED <<quotaVars, fxVars, runVars, fsVars, got, capVars, compVars, svcVars, pollVars, jobVars, kp>>

\* The outcomes of `stellar keys generate --global deploy_keypair`: the CLI
\* refuses an identity that already exists; otherwise it creates it or fails
\* (with --fund on testnet, e.g. when funding fails).
GenerateOutcomes == IF kp THEN {"exists"} ELSE {"created", "error"}

\* What ensureDefaultKeypair returns after the create call ended with res.
KeypairEnsured(res) == res = "created"

\* The create call of deploy d ends with res; deployContract throws
\* 'Failed to create default keypair' when ensureDefaultKeypair returned false.
KeyGenerate(d, res) ==
  /\ kd[d].pc = "generate"
  /\ res \in GenerateOutcomes
  /\ kp' = (kp \/ res = "created")
  /\ kd' = [kd EXCEPT ![d] = [@ EXCEPT !.out = res,
                                        !.pc = IF KeypairEnsured(res) THEN "proceeds" ELSE "failed"]]
  /\ UNCHANGED <<quotaVars, fxVars, runVars, fsVars, got, capVars, compVars, svcVars, pollVars, jobVars>>

\* The deploy of d is over (deployed, or failed); d can deploy again.
KeyDeployEnds(d) ==
  /\ kd[d].pc \in {"proceeds", "failed"}
  /\ kd' = [kd EXCEPT ![d] = NoDeploy]
  /\ UNCHANGED <<quotaVars, fxVars, runVars, fsVars, got, capVars, compVars, svcVars, pollVars, jobVars, kp>>

NextKeys ==
  \/ \E d \in Deployers, network \in Networks : KeyDeployStarts(d, network)
  \/ \E d \in Deployers : KeyAddress(d)
  \/ \E d \in Deployers, res \in {"created", "exists", "error"} : KeyGenerate(d, res)
  \/ \E d \in Deployers : KeyDeployEnds(d)

\* Concurrent deploys of one worker ensuring the shared identity.
SpecKeys == Init /\ [][NextKeys]_vars

\* ------------------------------------------- compileProject, by backend
\* The files of a project that matter to the backends.
ProjectFiles == {"lib.rs", "src/lib.rs", "Cargo.toml"}

\* fallbackCompilation: it only checks that lib.rs (or src/lib.rs) and
\* Cargo.toml exist, and then returns success with a mock WASM.
fallbackCompilation(fs) ==
  IF "lib.rs" \notin fs /\ "src/lib.rs" \notin fs
    THEN [success |-> FALSE, backend |-> "fallback", error |-> "Missing lib.rs file",
          compilationType |-> "undefined", fallback |-> FALSE]
  ELSE IF "Cargo.toml" \notin fs
    THEN [success |-> FALSE, backend |-> "fallback", error |-> "Missing Cargo.toml file",
          compilationType |-> "undefined", fallback |-> FALSE]
  ELSE [success |-> TRUE, backend |-> "fallback", error |-> "none",
        compilationType |-> "undefined", fallback |-> TRUE]

\* The words the build handlers look for, and lines a build prints.
ErrorLit == <<"e", "r", "r", "o", "r">>
FailedLit == <<"f", "a", "i", "l", "e", "d">>
CompilingSdkLit == <<"C", "o", "m", "p", "i", "l", "i", "n", "g", " ", "s", "o", "r", "o", "b", "a", "n", "-", "s", "d", "k">>
CompilingThiserrorLit == <<"C", "o", "m", "p", "i", "l", "i", "n", "g", " ", "t", "h", "i", "s", "e", "r", "r", "o", "r">>
FinishedLit == <<"F", "i", "n", "i", "s", "h", "e", "d", " ", "r", "e", "l", "e", "a", "s", "e">>
RustcErrorLit == <<"e", "r", "r", "o", "r", "[", "E", "0", "3", "0", "8", "]">>

\* String.prototype.toLowerCase, by character.
UpperLetters == <<"A", "B", "C", "D", "E", "F", "G", "H", "I", "J", "K", "L", "M",
                  "N", "O", "P", "Q", "R", "S", "T", "U", "V", "W", "X", "Y", "Z">>
LowerLetters == <<"a", "b", "c", "d", "e", "f", "g", "h", "i", "j", "k", "l", "m",
                  "n", "o", "p", "q", "r", "s", "t", "u", "v", "w", "x", "y", "z">>
ToLowerCase(str) ==
  [i \in 1..Len(str) |->
     IF \E k \in 1..26 : UpperLetters[k] = str[i]
       THEN LowerLetters[CHOOSE k \in 1..26 : UpperLetters[k] = str[i]]
       ELSE str[i]]

\* The stdout and stderr handlers: a non-empty line whose lower case
\* includes 'error' or 'failed' sets hasError.
SetsHasError(line) ==
  /\ Trim(line) # <<>>
  /\ \/ Includes(ToLowerCase(Trim(line)), ErrorLit)
     \/ Includes(ToLowerCase(Trim(line)), FailedLit)
hasError(lines) == \E i \in 1..Len(lines) : SetsHasError(lines[i])

\* What a build prints: cargo's progress lines, with or without a crate
\* whose name contains 'error', and a compiler error.
BuildLines == {CompilingSdkLit, CompilingThiserrorLit, FinishedLit, RustcErrorLit}
BuildOutputs == UNION {[1..n -> BuildLines] : n \in 0..MaxLines}

\* The start of the try block: fs.remove, fs.ensureDir and fs.writeFile of
\* the project's files. When one of them rejects, the outer catch runs and
\* throws its ReferenceError.
Materializes(ok) ==
  /\ cstep = "files"
  /\ cstep' = IF ok THEN "native" ELSE "raised"
  /\ UNCHANGED <<quotaVars, fxVars, runVars, fsVars, got, capVars, svcVars, pollVars, keyVars, jobVars, files, docker, cli, bout, tried, nexit, nwasm, cres, cjob>>

\* The try around realStellarCompilation: a build that closes with code 0,
\* printed no line that set hasError and leaves a .wasm file resolves with
\* success, which compileProject returns. A spawn error, a nonzero exit
\* code, hasError or a missing .wasm rejects the promise
\* realStellarCompilation returned without awaiting it, so the rejection
\* lands in compileProject's catch, which logs 'trying Docker...' and goes on.
NativeBuild(zero, wasmFound) ==
  /\ cstep = "native"
  /\ tried' = Append(tried, "native")
  /\ nexit' = IF ~cli THEN "absent" ELSE IF zero THEN "zero" ELSE "nonzero"
  /\ nwasm' = (cli /\ wasmFound)
  /\ IF cli /\ zero /\ ~hasError(bout) /\ wasmFound
       THEN /\ cstep' = "done"
            /\ cres' = [success |-> TRUE, backend |-> "real", error |-> "none",
                        compilationType |-> "real", fallback |-> FALSE]
       ELSE /\ cstep' = "docker"
            /\ cres' = cres
  /\ UNCHANGED <<quotaVars, fxVars, runVars, fsVars, got, capVars, svcVars, pollVars, keyVars, jobVars, files, docker, cli, bout, cjob>>

\* if (!this.docker) return this.fallbackCompilation(...); the same when the
\* compiler image is neither found nor built. Otherwise the container is
\* created and started.
DockerCheck ==
  /\ cstep = "docker"
  /\ IF docker
       THEN /\ cstep' = "container"
            /\ tried' = Append(tried, "docker")
            /\ cres' = cres
       ELSE /\ cstep' = "done"
            /\ tried' = Append(tried, "fallback")
            /\ cres' = fallbackCompilation(files)
  /\ UNCHANGED <<quotaVars, fxVars, runVars, fsVars, got, capVars, svcVars, pollVars, keyVars, jobVars, files, docker, cli, bout, nexit, nwasm, cjob>>

\* createContainer, start and wait, then: success when StatusCode is 0 and
\* contract.wasm exists; the result has no compilationType. When the
\* container engine rejects a call, the outer catch runs; it uses `logs`,
\* which is declared inside the try block, so the catch itself throws a
\* ReferenceError and compileProject rejects.
ContainerEnds(started, zero, wasmExists) ==
  /\ cstep = "container"
  /\ cstep' = IF started THEN "done" ELSE "raised"
  /\ cres' = IF ~started THEN cres
             ELSE IF zero /\ wasmExists
               THEN [success |-> TRUE, backend |-> "docker", error |-> "none",
                     compilationType |-> "undefined", fallback |-> FALSE]
               ELSE [success |-> FALSE, backend |-> "docker", error |-> "Real Rust compilation failed",
                     compilationType |-> "undefined", fallback |-> FALSE]
  /\ UNCHANGED <<quotaVars, fxVars, runVars, fsVars, got, capVars, svcVars, pollVars, keyVars, jobVars, files, docker, cli, bout, tried, nexit, nwasm, cjob>>

\* processCompileJob's jobResult, as far as it tells the backend: success,
\* compilationType and error are copied from the runner's result; its
\* `fallback` field is not.
jobResult(res) ==
  [success |-> res.success, compilationType |-> res.compilationType, error |-> res.error]

\* The worker after compileProject: the terminal write of jobResult when it
\* returned, the catch's failed write when it raised.
StoreResult ==
  /\ cstep \in {"done", "raised"}
  /\ cstep' = "stored"
  /\ cjob' = IF cstep = "done" THEN jobResult(cres)
             ELSE [success |-> FALSE, compilationType |-> "undefined", error |-> "raised"]
  /\ UNCHANGED <<quotaVars, fxVars, runVars, fsVars, got, capVars, svcVars, pollVars, keyVars, jobVars, files, docker, cli, bout, tried, nexit, nwasm, cres>>

\* The next compile job on the same host: compileProject starts again.
CompileAgain ==
  /\ cstep = "stored"
  /\ cstep' = "files"
  /\ tried' = <<>>
  /\ nexit' = "none"
  /\ nwasm' = FALSE
  /\ cres' = NoCompile
  /\ cjob' = NoJobResult
  /\ UNCHANGED <<quotaVars, fxVars, runVars, fsVars, got, capVars, svcVars, pollVars, keyVars, jobVars, files, docker, cli, bout>>

InitBackends ==
  /\ InitJobs({"unset"}, MaxJobs, FALSE)
  /\ logCap = MaxLogs
  /\ fxUp = TRUE
  /\ user = NewUser
  /\ wasm = <<>>
  /\ cliOut = <<>>
  /\ files \in SUBSET ProjectFiles
  /\ docker \in BOOLEAN
  /\ cli \in BOOLEAN
  /\ bout \in BuildOutputs

NextBackends ==
  \/ \E ok \in BOOLEAN : Materializes(ok)
  \/ \E zero, wasmFound \in BOOLEAN : NativeBuild(zero, wasmFound)
  \/ DockerCheck
  \/ \E started, zero, wasmExists \in BOOLEAN : ContainerEnds(started, zero, wasmExists)
  \/ StoreResult
  \/ CompileAgain

SpecBackends == InitBackends /\ [][NextBackends]_vars

\* ================================================================ claims
Terminal == {"completed", "failed"}

\* C1: once a job's stored status is completed or failed, no later step
\* changes its stored status, result or error.
C1_TerminalWriteOnce ==
  [][\A j \in Jobs : store[j].status \in Terminal => store'[j] = store[j]]_vars

\* C2: a handler that receives a payload whose Job record is already
\* completed or failed returns without invoking the runner and without
\* writing to the Job store.
C2_IdempotencyCheck ==
  [][\A j \in Jobs :
       (pc[j] = "start" /\ store[j].status \in Terminal /\ pc'[j] # "start")
         => (pc'[j] = "idle" /\ store'[j] = store[j])]_vars

\* C3: every job answered 202 reaches a terminal status: once the broker is
\* through with the payload (the handler returned, or the attempts are used
\* up), the stored status is completed or failed.
C3_AcceptedJobEndsTerminal ==
  \A j \in Jobs :
    (resp[j] = 202 /\ bull[j] \in {"completed", "failed"})
      => store[j].status \in Terminal

\* C4: a completed job has a non-null result and a null error; a failed job
\* has a non-null error.
C4_TerminalFields ==
  \A j \in Jobs :
    /\ store[j].status = "completed" => (~store[j].result.null /\ store[j].error = Null)
    /\ store[j].status = "failed" => store[j].error # Null

\* A job completed by a retry after an attempt that was recorded failed.
C4_Witness ==
  \E j \in Jobs : store[j].status = "completed" /\ attempts[j] >= 1

\* The runner of the handler working on j has ended in failure.
AttemptFailed(j) == outcome[j] \in {"err", "raise"}
\* The step is the terminal write of the handler working on j.
WritesTerminal(j) == pc[j] \in {"final", "caught"} /\ pc'[j] # pc[j]
\* The step ends the handler working on j.
HandlerEnds(j) == pc[j] \in {"post", "caught"} /\ pc'[j] = "idle"
RecordedFailed(j) == store'[j].exists => (store'[j].status = "failed" /\ store'[j].error # Null)
SurfacedFailed(j) == bull'[j] \in {"waiting", "failed"} /\ attempts'[j] = attempts[j] + 1

C6_ThreeAttemptsThenFailed ==
  \A j \in Jobs :
    /\ calls[j] <= MaxAttempts
    /\ (bull[j] = "failed" /\ resp[j] = 202) => store[j].status = "failed"

\* The concurrency N the worker of queue t was started with.
Declared(t) == ParseConcurrency(env[t])

\* C7: on one worker with declared concurrency N (default 2) at most N
\* handler invocations are in flight.
C7_ConcurrencyCap ==
  \A t \in Types : Cardinality(InFlight(t)) <= Declared(t)

\* N handlers are running and one more payload of the queue waits.
C7_Witness ==
  \E t \in Types :
    /\ Cardinality(InFlight(t)) = Declared(t)
    /\ \E j \in Jobs : jtype[j] = t /\ bull[j] = "waiting" /\ pc[j] = "idle"

\* The events of job j that socket s has been sent, in order.
EventsOf(s, j) == SelectSeq(recv[s], LAMBDA e : e.job = j)

\* C8: a socket subscribed to a job has been sent a snapshot event of the
\* job, before any live job:log or job:status event of it.
C8_SnapshotOnSubscribe ==
  \A s \in Sockets, j \in Jobs :
    s \in rooms[j] =>
      \E i \in 1..Len(EventsOf(s, j)) :
        /\ EventsOf(s, j)[i].name = "snapshot"
        /\ \A k \in 1..(i - 1) : EventsOf(s, j)[k].name = "snapshot"

\* C9: once a job is terminal, its handler has ended and the bus is
\* drained, a subscribed socket has been sent the terminal status and every
\* log record of the runner that the job's record holds.
C9_NoGap ==
  \A s \in Sockets, j \in Jobs :
    (/\ s \in rooms[j]
     /\ store[j].status \in Terminal
     /\ pc[j] = "idle" /\ bus[j] = <<>>)
      => /\ \E i \in 1..Len(recv[s]) :
              recv[s][i].job = j /\ recv[s][i].status = store[j].status
         /\ \A n \in 1..Len(store[j].result.logs) :
              store[j].result.logs[n].kind = "runner" =>
                \E i \in 1..Len(recv[s]) :
                  recv[s][i].job = j /\ recv[s][i].log = store[j].result.logs[n]

\* The tier table: <<deploy limit, function test limit>>.
TierLimits(plan) ==
  CASE plan = "free" -> <<5, 2>>
    [] plan = "plan2" -> <<Unlimited, 5>>
    [] plan = "plan3" -> <<Unlimited, Unlimited>>

\* At least 30 days have passed since the reset date.
ResetDue(t, resetDate) == t - resetDate >= ResetDays * TicksPerDay
\* The count the check goes by: zero when the reset is due.
CountChecked(count, t, resetDate) == IF ResetDue(t, resetDate) THEN 0 ELSE count
\* limit = -1 or, after the reset, count < limit.
Admits(limit, count, t, resetDate) ==
  limit = Unlimited \/ CountChecked(count, t, resetDate) < limit

\* C10: applying a plan sets the limits of the tier table; a check admits
\* iff limit = -1 or, after zeroing the counters when at least 30 days have
\* passed since the reset date, count < limit, and a rejection reports the
\* count and the limit.
C10_Admission ==
  [][/\ ret'.op = "updateSubscription"
          => <<user'.dLimit, user'.fLimit>> = TierLimits(user'.plan)
     /\ ret'.op = "canDeploy"
          => /\ ret'.allowed = Admits(user.dLimit, user.dCount, now, user.dReset)
             /\ ~ret'.allowed => (ret'.current = user'.dCount /\ ret'.limit = user.dLimit)
             /\ user'.dCount = (IF user.dLimit = Unlimited THEN user.dCount
                                ELSE CountChecked(user.dCount, now, user.dReset))
     /\ ret'.op = "canTestFunction"
          => /\ ret'.allowed = Admits(user.fLimit, user.fCount, now, user.fReset)
             /\ ~ret'.allowed => (ret'.current = user'.fCount /\ ret'.limit = user.fLimit)
             /\ user'.fCount = (IF user.fLimit = Unlimited THEN user.fCount
                                ELSE CountChecked(user.fCount, now, user.fReset))
    ]_vars

\* A deploy check that admitted a user whose counter had been at the limit,
\* after the 30-day reset.
C10_Witness ==
  /\ ret.op = "canDeploy" /\ ret.allowed
  /\ user.dReset > 0 /\ user.fCount = 0 /\ user.dLimit = 5

\* C11: a POST deploy by a user whose deployment counter has reached a finite
\* limit is answered 403, and neither a queue payload nor a Job record is
\* created for it.
C11_QuotaRejectsDeploy ==
  \A j \in Jobs :
    (jtype[j] = "deploy" /\ ~canDeployRet(user, now).allowed)
      => /\ bull[j] = "none"
         /\ ~store[j].exists
         /\ resp[j] \in {0, 403}

\* A handler ends its invocation for a deploy that succeeded.
DeployCompletes(j) == pc[j] = "post" /\ pc'[j] = "idle" /\ DeploySucceeded(j)

\* C12: the deployment counter increases only in a step that ends a
\* successful deploy, and the function-test counter only in a step that ends
\* a successful contract invocation.
C12_FailuresDoNotBurnQuota ==
  [][/\ user'.dCount > user.dCount => \E j \in Jobs : DeployCompletes(j)
     /\ user'.fCount > user.fCount => ires' = "ok"]_vars

\* C13: the handler invocation that ends a deploy job which succeeded with a
\* contract address increments the user's deployment counter.
C13_DeployIncrementsCounter ==
  [][\A j \in Jobs : DeployCompletes(j) => user'.dCount = user.dCount + 1]_vars

\* C14: whatever the redeliveries and retries, a job id gets at most one
\* success entry in the deployment history and at most one counter increment.
C14_SideEffectsAtMostOnce ==
  \A j \in Jobs : history[j] <= 1 /\ incs[j] <= 1

\* C15 names: a byte string the claim says must be rejected.
MustReject(buf) == Len(buf) < 8 \/ SubSeq(buf, 1, 4) # WasmMagic

\* C15: for a byte string shorter than 8 bytes or not starting with
\* 00 61 73 6D, validation says invalid, the deploy CLI is never spawned, and
\* the run ends with an error result, which the worker records as failed.
C15_WasmRejected ==
  MustReject(wasm) =>
    /\ ~validateWasmFile(wasm).valid
    /\ ~spawned
    /\ dstep = "done" => (~dres.success /\ TerminalStatus(dres) = "failed")

\* A run that validation ended: eight bytes or more with a wrong magic.
C15_Witness ==
  /\ Len(wasm) >= 8
  /\ SubSeq(wasm, 1, 4) # WasmMagic
  /\ SubSeq(wasm, 5, 8) = WasmVersion
  /\ dstep = "done"
  /\ dres = DeployFailed("Invalid WASM file")

\* C16: two jobs whose runners are at work never have the same working
\* directory, and the files a runner wrote stay on disk until its own cleanup.
C16_OwnDirectory ==
  /\ \A j, k \in Jobs :
       (j # k /\ rstep[j] \in {"clean", "written"} /\ rstep[k] \in {"clean", "written"})
         => rdir[j] # rdir[k]
  /\ \A j \in Jobs : rstep[j] = "written" => j \in disk[rdir[j]]

\* C17: GET /jobs/{id} answers with the job's record only when the requester
\* is the user who owns the job.
C17_OwnerOnly ==
  got.code = 200 => got.who = "owner"

\* C18: when the enqueue of a POST compile or POST deploy fails, the answer
\* is a 5xx status and there is no Job record with the allocated id.
C18_EnqueueFailure ==
  \A j \in Jobs :
    ing[j] = "enqfail" => (resp[j] \in 500..599 /\ ~store[j].exists)

\* A request whose enqueue failed, after a GET looked its job id up.
C18_Witness ==
  \E j \in Jobs :
    /\ ing[j] = "enqfail"
    /\ bull[j] = "none"
    /\ got.id = j
    /\ got.code = 404

\* C19: a handler that receives a payload whose Job record does not exist
\* ends the invocation without running the toolchain, and the broker marks
\* the payload done.
C19_MissingRecordAcked ==
  [][\A j \in Jobs :
       (pc[j] = "start" /\ ~store[j].exists /\ pc'[j] # "start")
         => (pc'[j] = "idle" /\ bull'[j] = "completed")]_vars

\* The prefixes and the suffixes of the records a runner emits, in order.
EmittedParts ==
  UNION {UNION {{SubSeq(RunnerLogs(k), 1, i), SubSeq(RunnerLogs(k), i + 1, k)} : i \in 0..k} :
           k \in 0..MaxLogs}

\* C20: the logs stored on a Job are a prefix or a suffix of the records the
\* job's runner emitted, and they are in the order of their timestamps.
C20_PersistedLogs ==
  \A j \in Jobs :
    (store[j].exists /\ ~store[j].result.null) =>
      /\ store[j].result.logs \in EmittedParts
      /\ \A a, b \in DOMAIN store[j].result.logs :
            a < b => store[j].result.logs[a].n <= store[j].result.logs[b].n

\* The runner's records among stored logs, and "p is a prefix of q".
RunnerPart(logs) == SelectSeq(logs, LAMBDA r : r.kind = "runner")
IsPrefix(p, q) == Len(p) <= Len(q) /\ SubSeq(q, 1, Len(p)) = p

\* C21: the bus gets each record the runner emits appended behind the ones
\* emitted before, and the runner's records in the store are always the
\* first records it emitted, in the order it emitted them.
C21_LogOrder ==
  [][\A j \in Jobs :
       /\ emitted'[j] = emitted[j] + 1 => bus'[j] = Append(bus[j], LogMsg(emitted'[j]))
       /\ bus'[j] # bus[j] => \E m \in {LogMsg(k) : k \in 1..logCap} \cup {StatusMsg(st) : st \in Terminal} :
                                bus'[j] = Append(bus[j], m)
       /\ RunnerPart(store'[j].result.logs) = RunnerLogs(Len(RunnerPart(store'[j].result.logs)))]_vars

\* Two records emitted, both on the bus in order, both in the store.
C21_Witness ==
  \E j \in Jobs :
    /\ emitted[j] = 2
    /\ SubSeq(bus[j], 1, 2) = <<LogMsg(1), LogMsg(2)>>
    /\ store[j].result.logs = RunnerLogs(2)

\* C22: each step that writes a terminal status to a job's record also
\* publishes, after the write, a job:status message with that status.
C22_StatusAfterTerminalWrite ==
  [][\A j \in Jobs :
       (WritesTerminal(j) /\ store'[j].status \in Terminal)
         => bus'[j] = Append(bus[j], StatusMsg(store'[j].status))]_vars

\* C26: the logs written with a failed status hold every record the runner
\* emitted in that attempt.
C26_FailedKeepsLogs ==
  [][\A j \in Jobs :
       (WritesTerminal(j) /\ store'[j].status = "failed")
         => \A k \in 1..emitted[j] :
              \E i \in DOMAIN store'[j].result.logs : store'[j].result.logs[i] = RunnerLog(k)]_vars

\* C27: a stored job has an error exactly when its status is failed.
C27_ErrorIffFailed ==
  \A j \in Jobs :
    store[j].exists => (store[j].error # Null <=> store[j].status = "failed")

\* C28: while a runner is at work, an incremental log write that completes
\* leaves in the store a sequence that extends the one stored before.
C28_AppendMonotone ==
  [][\A j \in Jobs :
       (pc[j] = "run" /\ store[j].exists /\ pending'[j] # pending[j] /\ pending'[j] \subseteq pending[j])
         => IsPrefix(RunnerPart(store[j].result.logs), store'[j].result.logs)]_vars

\* The server takes the oldest bus message of job j.
Forwards(j) == bus[j] # <<>> /\ bus'[j] = Tail(bus[j])

\* C29: a bus message of a job is emitted to exactly the sockets that are in
\* the job's room when the server receives it, a socket gets an event only
\* that way, and leaving a room twice, or a room the socket is not in, is
\* the same as leaving it once.
C29_RoomMembership ==
  [][/\ \A j \in Jobs : Forwards(j) =>
          \A s \in Sockets :
            recv'[s] = IF s \in rooms[j] THEN Append(recv[s], Event(j, Head(bus[j])))
                       ELSE recv[s]
     /\ \A s \in Sockets : recv'[s] # recv[s] => \E j \in Jobs : Forwards(j) /\ s \in rooms[j]
     /\ \A s \in Sockets, j \in Jobs :
          /\ Leave(Leave(rooms[j], s), s) = Leave(rooms[j], s)
          /\ s \notin rooms[j] => Leave(rooms[j], s) = rooms[j]]_vars

\* Socket 1 got the job's log event, left the room, and the status event
\* was then forwarded to socket 2 only.
C29_Witness ==
  \E j \in Jobs :
    /\ rooms[j] = {2}
    /\ bus[j] = <<>>
    /\ Len(EventsOf(1, j)) = 1 /\ EventsOf(1, j)[1].name = "job:log"
    /\ Len(EventsOf(2, j)) = 2 /\ EventsOf(2, j)[2].name = "job:status"

\* C23: when a side effect after the terminal write is rejected, the handler
\* still leaves its post-write position with the job record as the terminal
\* write left it, the failure logged, no attempt counted and the BullMQ job
\* not failed.
C23_SideEffectFailureContained ==
  [][\A j \in Jobs : (pc[j] = "post" /\ pc'[j] # "post" /\ FxFails(j)) =>
        /\ store'[j] = store[j]
        /\ warned'[j]
        /\ attempts'[j] = attempts[j]
        /\ bull'[j] \in {"completed", "waiting"}
        /\ history'[j] = history[j] /\ incs'[j] = incs[j]]_vars

\* A compile job is recorded completed, its project update was rejected and
\* logged, and BullMQ has the job as completed.
C23_Witness ==
  \E j \in Jobs :
    /\ warned[j] /\ pc[j] = "idle"
    /\ jtype[j] = "compile"
    /\ store[j].exists /\ store[j].status = "completed"
    /\ bull[j] = "completed" /\ attempts[j] = 0

\* C30: a deploy that validation rejected for its WASM bytes has ensured no
\* signing identity and issued no funding request.
C30_ValidationBeforeIdentity ==
  (dstep = "done" /\ dres = DeployFailed("Invalid WASM file")) => (~keyed /\ ~funded)

\* C24: once the native toolchain was present and its build process exited
\* nonzero, compileProject runs no other backend and returns an error.
C24_NativeFailureIsFinal ==
  nexit = "nonzero" =>
    /\ tried = <<"native">>
    /\ cstep \in {"done", "stored"} => ~cres.success

\* C25: when the CLI printed one line in one of the four documented shapes
\* around a contract id, extractContractId returned that id; when it printed
\* lines of no shape, it returned none.
C25_ExtractsToken ==
  extracted.ran =>
    /\ \A k \in 1..4 : cliOut = Shape(k, LongId) => (extracted.found /\ extracted.id = LongId)
    /\ cliOut \in OtherLines => ~extracted.found

\* The uppercase base32 alphabet.
Base32Upper ==
  {"A", "B", "C", "D", "E", "F", "G", "H", "I", "J", "K", "L", "M", "N", "O", "P", "Q",
   "R", "S", "T", "U", "V", "W", "X", "Y", "Z", "2", "3", "4", "5", "6", "7"}

\* C34: the contract id of a successful deploy begins with C, is longer than
\* 50 characters and has only uppercase base32 characters.
C34_ContractIdFormat ==
  (dstep = "done" /\ dres.success) =>
    /\ extracted.found
    /\ StartsWith(extracted.id, <<"C">>)
    /\ Len(extracted.id) > MinWholeLine
    /\ \A i \in 1..Len(extracted.id) : extracted.id[i] \in Base32Upper

\* C36: a call of canDeploy or canTestFunction leaves the user document, its
\* counters and reset dates, as it was.
C36_AdmissionReadOnly ==
  [][ret'.op \in {"canDeploy", "canTestFunction"} => user' = user]_vars

\* C38: with a finite limit, the stored function-test count is at most the
\* limit, and once no request is in flight it equals the number of
\* invocations that were admitted and resolved.
C38_FunctionTestCount ==
  user.fLimit # Unlimited =>
    /\ user.fCount <= user.fLimit
    /\ (\A r \in Sessions : sess[r].pc = "idle") => user.fCount = invoked

\* C37: once POST compile or POST deploy has responded, the broker holds a
\* payload for the job id only if the Job record exists; a request answered
\* 5xx leaves no payload for a worker.
C37_IngressAtomic ==
  \A j \in Jobs :
    ing[j] = "done" =>
      /\ bull[j] # "none" => store[j].exists
      /\ resp[j] \in 500..599 => (bull[j] = "none" /\ calls[j] = 0)

C32_NativeOutcomeByExitCode ==
  (nexit = "zero" /\ cstep \in {"done", "stored"}) =>
    IF nwasm THEN cres.success /\ cres.backend = "real" ELSE ~cres.success

\* The tag the stored result is to carry for each backend.
BackendTag(b) ==
  CASE b = "real" -> "real" [] b = "docker" -> "docker" [] b = "fallback" -> "fallback"
    [] OTHER -> "undefined"

\* C33: the stored result of a completed compile carries a backend tag, one
\* of three values, that names the backend which produced the bytes.
C33_BackendTag ==
  (cstep = "stored" /\ cjob.success) => cjob.compilationType = BackendTag(cres.backend)

\* C39: compileProject never raises: it ends by returning a result.
C39_CompileNeverRaises == cstep # "raised"

\* C40: the records logged for the container's lines are the lines in output
\* order, each once, and after the final poll they are all the lines.
C40_EachLineOnce ==
  /\ plog = <<>> \/ (Len(plog) = 1 /\ plog[1].lo = 1)
  /\ (pstep = "finished" /\ polls = <<>>) => plog = Logged(<<>>, [lo |-> 1, hi |-> cout])

\* C31: a deploy whose create call reported that the identity already exists
\* is treated as having the identity, and proceeds.
C31_IdentityIdempotent ==
  \A d \in Deployers : kd[d].out = "exists" => kd[d].pc = "proceeds"

====
